---- MODULE Spec2Model ----
(***************************************************************************)
(* Model of TestingTools.test_bsnnummer (the 11-proef validator) and       *)
(* TestingTools.genereer_bsn (the retry-until-valid generator) of          *)
(* src/TestingTools.py.                                                    *)
(*                                                                         *)
(* Characters are one-character strings, Python strings are sequences of   *)
(* characters (1-based here, 0-based in the source).  Python ints are TLA+ *)
(* integers.  An argument of test_bsnnummer is a tagged value: an int or a *)
(* string, since str(bsn) accepts both.                                    *)
(***************************************************************************)
EXTENDS Integers, Sequences, FiniteSets, TLC

\* ------------------------------------------------------------------ bounds
\* random.randint(0, 9) is explored over 0..MaxDigit
MaxDigit == 1

\* ------------------------------------------------------- program constants
BsnLen == 9
Modulus == 11

DigitChars == <<"0", "1", "2", "3", "4", "5", "6", "7", "8", "9">>

DigitCharSet == {DigitChars[i] : i \in 1..10}

IsDigitChar(c) == c \in DigitCharSet

\* a character that is neither a digit nor a sign
NonDigit == "x"

\* ------------------------------------------------------ Python primitives
\* str(d) for one decimal digit d
StrDigit(d) == DigitChars[d + 1]

\* int(c) for a one-character string c that is a decimal digit
IntOfChar == [c \in DigitCharSet |-> (CHOOSE i \in 1..10 : DigitChars[i] = c) - 1]

IntChar(c) == IntOfChar[c]

\* powers of ten up to 10^9; ints are explored below 2^31
Pow10Table == <<1, 10, 100, 1000, 10000, 100000, 1000000, 10000000, 100000000,
                1000000000>>

Pow10(k) == Pow10Table[k + 1]

\* the longest numeral of an int below 2^31
MaxIntLen == Len(Pow10Table)

\* the number of characters of str(n)
NumLen(n) == IF n >= Pow10(MaxIntLen - 1) THEN MaxIntLen
             ELSE CHOOSE k \in 1..(MaxIntLen - 1) :
                      n < Pow10(k) /\ (k = 1 \/ n >= Pow10(k - 1))

\* str(n) for a non-negative int n: its decimal numeral, no leading zeros
StrInt(n) ==
    SubSeq([i \in 1..MaxIntLen |-> StrDigit((n \div Pow10(MaxIntLen - i)) % 10)],
           MaxIntLen + 1 - NumLen(n), MaxIntLen)

RECURSIVE IntPrefix(_, _)
\* the int denoted by the first k characters of the digit string s
IntPrefix(s, k) == IF k = 0 THEN 0
                   ELSE 10 * IntPrefix(s, k - 1) + IntChar(s[k])

\* int(s) for a non-empty string s of decimal digits
IntStr(s) == IntPrefix(s, Len(s))

\* tagged arguments
IntArg(n) == [kind |-> "int", n |-> n, s |-> <<>>]
StrArg(s) == [kind |-> "str", n |-> 0, s |-> s]

\* str(bsn)
Str(bsn) == IF bsn.kind = "int" THEN StrInt(bsn.n) ELSE bsn.s

\* variants of zfill: one that pads on the right, one that also cuts a longer
\* string down to its last width characters
zfill_right(s, width) == s \o [i \in 1..(width - Len(s)) |-> "0"]

zfill_keepLast(s, width) ==
    IF Len(s) > width THEN SubSeq(s, Len(s) - width + 1, Len(s))
    ELSE [i \in 1..(width - Len(s)) |-> "0"] \o s

\* s.zfill(width) for s without a leading sign; no zeros are added when s has
\* width characters or more
zfill(s, width) == [i \in 1..(width - Len(s)) |-> "0"] \o s

\* ---------------------------------------------------------- 11-proef
\* bsnstring = str(bsn).zfill(9)
bsnstring(bsn) == zfill(Str(bsn), BsnLen)

\* int(bsnstring[i]) raises ValueError on a character that is no digit
Readable(bs) == \A i \in 1..BsnLen : IsDigitChar(bs[i])

\* variants of the sum: a check digit that is added, a check digit that is
\* left out, weights shifted by one
totaal_plusLast(bs) ==
      (IntChar(bs[1]) * 9) + (IntChar(bs[2]) * 8) + (IntChar(bs[3]) * 7)
    + (IntChar(bs[4]) * 6) + (IntChar(bs[5]) * 5) + (IntChar(bs[6]) * 4)
    + (IntChar(bs[7]) * 3) + (IntChar(bs[8]) * 2) + (IntChar(bs[9]) * 1)

totaal_noLast(bs) ==
      (IntChar(bs[1]) * 9) + (IntChar(bs[2]) * 8) + (IntChar(bs[3]) * 7)
    + (IntChar(bs[4]) * 6) + (IntChar(bs[5]) * 5) + (IntChar(bs[6]) * 4)
    + (IntChar(bs[7]) * 3) + (IntChar(bs[8]) * 2)

totaal_offByOne(bs) ==
      (IntChar(bs[1]) * 8) + (IntChar(bs[2]) * 7) + (IntChar(bs[3]) * 6)
    + (IntChar(bs[4]) * 5) + (IntChar(bs[5]) * 4) + (IntChar(bs[6]) * 3)
    + (IntChar(bs[7]) * 2) + (IntChar(bs[8]) * 1) + (IntChar(bs[9]) * (-1))

\* totaal = (int(bsnstring[0]) * 9) + ... + (int(bsnstring[8]) * -1)
totaal(bs) ==
      (IntChar(bs[1]) * 9) + (IntChar(bs[2]) * 8) + (IntChar(bs[3]) * 7)
    + (IntChar(bs[4]) * 6) + (IntChar(bs[5]) * 5) + (IntChar(bs[6]) * 4)
    + (IntChar(bs[7]) * 3) + (IntChar(bs[8]) * 2) + (IntChar(bs[9]) * (-1))

\* ------------------------------------------------------------ inputs
\* the digits random.randint(0, 9) is explored over
Digits == 0..MaxDigit

\* every outcome of "".join(str(random.randint(0, 9)) for _ in range(9))
Candidates == [1..BsnLen -> {StrDigit(d) : d \in Digits}]

Zeros9 == [i \in 1..BsnLen |-> "0"]

\* the numerals named by the specification's test data
Fix123456782 == <<"1", "2", "3", "4", "5", "6", "7", "8", "2">>
Fix987654321 == <<"9", "8", "7", "6", "5", "4", "3", "2", "1">>
Fix135792468 == <<"1", "3", "5", "7", "9", "2", "4", "6", "8">>
Fix246813579 == <<"2", "4", "6", "8", "1", "3", "5", "7", "9">>
Fix012345678 == <<"0", "1", "2", "3", "4", "5", "6", "7", "8">>

FixtureStrings == {Fix123456782, Fix987654321, Fix135792468, Fix246813579,
                   Fix012345678}

\* strings with a character that is no digit
MalformedStrings ==
    {[Zeros9 EXCEPT ![i] = NonDigit] : i \in 1..BsnLen}
    \cup {[Fix123456782 EXCEPT ![i] = NonDigit] : i \in 1..BsnLen}
    \cup {<<NonDigit>>, <<>>}

\* ints of ten digits
TenDigitInts == {1234567820, 1234567821, 1234567829, 1000000000, 2147483647}

\* the characters a caller appends as a tenth character
Tails == {"0", "9", NonDigit}

\* the arguments a caller builds from the numeral c: the int it denotes, the
\* numeral itself, and the numeral followed by a tenth character
ArgsOf(c) ==
    {IntArg(IntStr(c)), StrArg(c)} \cup {StrArg(Append(c, t)) : t \in Tails}

\* the other arguments: the test data as ints, as numerals, as numerals without
\* their leading zeros and with every tenth digit; malformed strings; ints of
\* ten digits; the int 0 and the first ints above it
ExtraInputs ==
    UNION {ArgsOf(c) : c \in FixtureStrings}
    \cup {StrArg(StrInt(IntStr(c))) : c \in FixtureStrings}
    \cup {StrArg(Append(c, StrDigit(d))) : c \in FixtureStrings, d \in 0..9}
    \cup {StrArg(s) : s \in MalformedStrings}
    \cup {IntArg(n) : n \in TenDigitInts}
    \cup {IntArg(n) : n \in 0..12}

\* ------------------------------------------------------------- state
VARIABLES
    pc,        \* "idle", or the position inside genereer_bsn: "draw", "test", "done"
    bsn,       \* genereer_bsn: the local bsn
    result,    \* genereer_bsn: the value returned, <<>> before the return
    vInput,    \* test_bsnnummer: the argument bsn of the latest call
    vString,   \* test_bsnnummer: the local bsnstring of the latest call
    vRet,      \* test_bsnnummer: the outcome of the latest call
    logged,    \* the level of the last record in the log
    memo       \* history: one earlier call of test_bsnnummer, its argument and outcome

vars == <<pc, bsn, result, vInput, vString, vRet, logged, memo>>

NoArg == [kind |-> "none", n |-> 0, s |-> <<>>]
NoMemo == [input |-> NoArg, ret |-> "None"]

\* the arguments whose calls the history variable may remember
WatchInputs == {IntArg(0), IntArg(1), IntArg(10), IntArg(123456782),
                StrArg(Fix123456782), StrArg(Fix987654321)}

\* variants of the verdict: one that refuses the number 0, one that depends
\* on the record logged before
Verdict_rejectZero(bs) ==
    IF ~Readable(bs) THEN "ValueError"
    ELSE IF totaal(bs) % Modulus = 0 /\ bs # [i \in 1..BsnLen |-> "0"]
         THEN "True" ELSE "False"

Verdict_sticky(bs) ==
    IF ~Readable(bs) THEN "ValueError"
    ELSE IF totaal(bs) % Modulus = 0 /\ logged # "WARNING" THEN "True" ELSE "False"

\* what test_bsnnummer does with its bsnstring bs: the exception of int() on a
\* character that is no digit, or True when totaal % 11 == 0 and False otherwise
Verdict(bs) ==
    IF ~Readable(bs) THEN "ValueError"
    ELSE IF totaal(bs) % Modulus = 0 THEN "True" ELSE "False"

\* the outcome of test_bsnnummer(bsn) for the argument arg
test_bsnnummer(arg) == Verdict(bsnstring(arg))

\* the record in the log after test_bsnnummer(bsn) with outcome r: logging.info
\* or logging.warning with "%i", which formats an int and fails on a string
\* inside the handler, leaving the log as it was
LogAfter(arg, r) ==
    IF r = "ValueError" \/ arg.kind # "int" THEN logged
    ELSE IF r = "True" THEN "INFO" ELSE "WARNING"

\* the frame of test_bsnnummer is gone
NoCall == /\ vInput' = NoArg
          /\ vString' = <<>>
          /\ vRet' = "None"

\* one complete call test_bsnnummer(arg), as seen by its caller
Call(arg) ==
    \E a \in {arg} : \E bs \in {bsnstring(a)} : \E r \in {Verdict(bs)} :
        /\ vInput' = a
        /\ vString' = bs
        /\ vRet' = r
        /\ logged' = LogAfter(a, r)

\* the history keeps what it has, or remembers this call of a caller when it
\* remembers none yet
Remember ==
    \/ memo' = memo
    \/ /\ memo = NoMemo
       /\ vInput' \in WatchInputs
       /\ memo' = [input |-> vInput', ret |-> vRet']

Init ==
    /\ pc = "idle"
    /\ bsn = <<>>
    /\ result = <<>>
    /\ vInput = NoArg
    /\ vString = <<>>
    /\ vRet = "None"
    /\ logged = "NONE"
    /\ memo = NoMemo

\* a caller invokes tools.test_bsnnummer(arg); the call runs to its end
Validate ==
    /\ pc = "idle"
    /\ \/ \E c \in Candidates : \E arg \in ArgsOf(c) : Call(arg)
       \/ \E arg \in ExtraInputs : Call(arg)
    /\ pc' = "checked"
    /\ UNCHANGED <<bsn, result, memo>>

\* the same with one of the other arguments, and a history of the calls
ValidateWatched ==
    /\ pc = "idle"
    /\ \E arg \in ExtraInputs : Call(arg)
    /\ Remember
    /\ pc' = "checked"
    /\ UNCHANGED <<bsn, result>>

\* the caller of test_bsnnummer goes on, the frame of the call is discarded
ValidateReturn ==
    /\ pc = "checked"
    /\ pc' = "idle"
    /\ NoCall
    /\ UNCHANGED <<bsn, result, logged, memo>>

\* a caller invokes tools.genereer_bsn(): bsn = "", while True:
Generate ==
    /\ pc = "idle"
    /\ pc' = "draw"
    /\ bsn' = <<>>
    /\ result' = <<>>
    /\ NoCall
    /\ UNCHANGED <<logged, memo>>

\* bsn = "".join(str(random.randint(0, 9)) for _ in range(9))
Draw ==
    /\ pc = "draw"
    /\ bsn' \in Candidates
    /\ pc' = "test"
    /\ UNCHANGED <<result, vInput, vString, vRet, logged, memo>>

\* variants of the test step: one that returns the candidate whatever the
\* outcome, one that goes on drawing after a candidate passed
Test_returnsFailed ==
    /\ pc = "test"
    /\ \E n \in {IntStr(bsn)} : Call(IntArg(n))
    /\ pc' = "done"
    /\ result' = bsn
    /\ UNCHANGED <<bsn, memo>>

Test_continues ==
    /\ pc = "test"
    /\ \E n \in {IntStr(bsn)} : Call(IntArg(n))
    /\ IF vRet' = "True"
         THEN \/ pc' = "done" /\ result' = bsn
              \/ pc' = "failed" /\ result' = result
         ELSE pc' = "failed" /\ result' = result
    /\ UNCHANGED <<bsn, memo>>

\* if self.test_bsnnummer(int(bsn)): return bsn
Test ==
    /\ pc = "test"
    /\ \E n \in {IntStr(bsn)} : Call(IntArg(n))
    /\ IF vRet' = "True"
         THEN pc' = "done" /\ result' = bsn
         ELSE IF vRet' = "False"
           THEN pc' = "failed" /\ result' = result
           ELSE pc' = "raised" /\ result' = result
    /\ UNCHANGED <<bsn, memo>>

\* the back edge of while True: the failed candidate and the frame of its
\* test are never read again, the next Draw overwrites them
Loop ==
    /\ pc = "failed"
    /\ pc' = "draw"
    /\ bsn' = <<>>
    /\ NoCall
    /\ UNCHANGED <<result, logged, memo>>

\* the caller takes the returned string: bsn = tools.genereer_bsn()
Return ==
    /\ pc = "done"
    /\ pc' = "idle"
    /\ bsn' = <<>>
    /\ result' = <<>>
    /\ NoCall
    /\ UNCHANGED <<logged, memo>>

Next == Validate \/ ValidateReturn \/ Generate \/ Draw \/ Test \/ Loop \/ Return

Spec == Init /\ [][Next]_vars

\* the steps of genereer_bsn are taken one after the other; the random source
\* emits a passing candidate again and again
DrawPassing ==
    /\ Draw
    /\ \E n \in {IntStr(bsn')} : \E bs \in {bsnstring(IntArg(n))} :
           Verdict(bs) = "True"

\* the behaviours with a history of one earlier call of test_bsnnummer
HistoryNext ==
    ValidateWatched \/ ValidateReturn \/ Generate \/ Draw \/ Test \/ Loop \/ Return

HistorySpec == Init /\ [][HistoryNext]_vars

\* the behaviours in which callers only call genereer_bsn
GenerateNext == Generate \/ Draw \/ Test \/ Loop \/ Return

FairSpec ==
    /\ Init
    /\ [][GenerateNext]_vars
    /\ WF_vars(Test)
    /\ WF_vars(Loop)
    /\ SF_vars(DrawPassing)

TypeOK ==
    /\ pc \in {"idle", "checked", "draw", "test", "failed", "done"}
    /\ vRet \in {"None", "True", "False", "ValueError"}
    /\ logged \in {"NONE", "INFO", "WARNING"}

\* ------------------------------------------------------------ properties
\* the i-th of the nine decimal digits of n, counted from the left
DigitAt(n, i) == (n \div Pow10(BsnLen - i)) % 10

\* arg stands for a sequence of exactly nine decimal digits
NineDigits(arg) ==
    \/ arg.kind = "int" /\ arg.n >= 0 /\ arg.n < Pow10(BsnLen)
    \/ arg.kind = "str" /\ Len(arg.s) = BsnLen
                        /\ \A i \in 1..BsnLen : IsDigitChar(arg.s[i])

\* the digits d[0..8] arg stands for, as d[1..9]
DigitsOf(arg) ==
    IF arg.kind = "int" THEN [i \in 1..BsnLen |-> DigitAt(arg.n, i)]
    ELSE [i \in 1..BsnLen |-> IntChar(arg.s[i])]

Weights == <<9, 8, 7, 6, 5, 4, 3, 2, -1>>

RECURSIVE WeightedSum(_, _)
WeightedSum(d, k) == IF k = 0 THEN 0 ELSE WeightedSum(d, k - 1) + Weights[k] * d[k]

\* a call of test_bsnnummer has run to its end and its frame is still there
Called == vInput # NoArg

\* C1: for every sequence of nine decimal digits, test_bsnnummer returns True
\* when 9*d[0] + 8*d[1] + ... + 2*d[7] - d[8] is congruent to 0 modulo 11 and
\* False otherwise, a negative total included.
C1_ChecksumIff ==
    (Called /\ NineDigits(vInput)) =>
        vRet = IF WeightedSum(DigitsOf(vInput), BsnLen) % 11 = 0
               THEN "True" ELSE "False"

\* a call on nine digits with a negative total, which is refused
C1_Witness ==
    /\ Called
    /\ NineDigits(vInput)
    /\ WeightedSum(DigitsOf(vInput), BsnLen) < 0
    /\ vRet = "False"

Padded(n) == [i \in 1..BsnLen |-> StrDigit(DigitAt(n, i))]

\* C3: for a non-negative int n of fewer than nine digits, test_bsnnummer(n)
\* returns what test_bsnnummer returns for the numeral of n left-padded with
\* zeros to nine characters.
C3_ZeroPadding ==
    (Called /\ vInput.kind = "int" /\ vInput.n < Pow10(BsnLen - 1)) =>
        /\ vString = Padded(vInput.n)
        /\ vRet = test_bsnnummer(StrArg(Padded(vInput.n)))

\* a caller's test_bsnnummer of an int of eight digits that is accepted
C3_Witness ==
    /\ pc = "checked"
    /\ vInput.kind = "int"
    /\ vInput.n >= Pow10(BsnLen - 2)
    /\ vInput.n < Pow10(BsnLen - 1)
    /\ vRet = "True"

\* C4 as stated: test_bsnnummer("135792468") returns True and
\* test_bsnnummer("246813579") returns True.
C4_Original ==
    (Called /\ vInput \in {StrArg(Fix135792468), StrArg(Fix246813579)}) =>
        vRet = "True"

\* C4 as amended: test_bsnnummer("135792468") returns False and
\* test_bsnnummer("246813579") returns False; their totals are 179 and 177.
C4_FixturesRefused ==
    /\ (Called /\ vInput = StrArg(Fix135792468)) =>
           (vRet = "False" /\ totaal(vString) = 179)
    /\ (Called /\ vInput = StrArg(Fix246813579)) =>
           (vRet = "False" /\ totaal(vString) = 177)

\* test_bsnnummer("135792468") has been called
C4_Witness ==
    /\ pc = "checked"
    /\ vInput = StrArg(Fix135792468)
    /\ vRet = "False"

\* C5: test_bsnnummer("123456782") returns True and
\* test_bsnnummer("987654321") returns False.
C5_Fixtures ==
    /\ (Called /\ vInput = StrArg(Fix123456782)) => vRet = "True"
    /\ (Called /\ vInput = StrArg(Fix987654321)) => vRet = "False"

\* test_bsnnummer("123456782") has been called
C5_Witness ==
    /\ pc = "checked"
    /\ vInput = StrArg(Fix123456782)
    /\ vRet = "True"

\* C6: the candidate "000000000", and the int 0 that is padded to it, is
\* accepted: its total is 0.
C6_AllZero ==
    (Called /\ vInput \in {StrArg(Zeros9), IntArg(0)}) =>
        /\ vString = Zeros9
        /\ totaal(vString) = 0
        /\ vRet = "True"

\* a caller's test_bsnnummer(0)
C6_Witness ==
    /\ pc = "checked"
    /\ vInput = IntArg(0)
    /\ vRet = "True"

\* C7: every test in genereer_bsn is of a candidate drawn after the previous
\* test; a candidate that passes ends the loop and is returned, nothing is
\* drawn after it; a candidate that fails leads to the next draw, however many
\* failed before; and when the random source emits a passing candidate again
\* and again, genereer_bsn returns.
C7_LoopStopsAtFirstPass ==
    /\ [][(pc' = "test") => (pc = "draw" /\ vInput' = NoArg)]_vars
    /\ [][(pc = "test" /\ test_bsnnummer(IntArg(IntStr(bsn))) = "True")
            => (pc' = "done" /\ result' = bsn)]_vars
    /\ [][(pc = "test" /\ test_bsnnummer(IntArg(IntStr(bsn))) = "False")
            => (pc' = "failed" /\ result' = <<>>)]_vars
    /\ [][(pc = "failed") => (pc' = "draw")]_vars
    /\ [][(pc = "done") => (pc' = "idle")]_vars
    /\ (pc = "draw") ~> (pc = "done" /\ result = bsn /\ vRet = "True")

\* genereer_bsn is about to return after a candidate failed before: the log
\* still ends with the warning of the failed one when the passing one is drawn
C7_Witness ==
    /\ pc = "test"
    /\ logged = "WARNING"
    /\ test_bsnnummer(IntArg(IntStr(bsn))) = "True"

\* arg is malformed: more than nine characters after padding, or a character
\* that is no digit
Malformed(arg) ==
    LET s == Str(arg) IN
    \/ Len(s) > BsnLen
    \/ \E i \in 1..Len(s) : ~IsDigitChar(s[i])

\* C8: test_bsnnummer fails with an InvalidInputError on malformed input
\* instead of computing a result.
C8_RejectsMalformed ==
    (Called /\ Malformed(vInput)) => vRet = "InvalidInputError"

\* C9: two calls of test_bsnnummer with the same argument return the same
\* outcome, whatever calls of test_bsnnummer and genereer_bsn lie between them.
C9_Deterministic ==
    (Called /\ vInput = memo.input) => vRet = memo.ret

\* a second call with a remembered argument, made from inside genereer_bsn,
\* after the log has changed
C9_Witness ==
    /\ pc = "failed"
    /\ memo.input = vInput
    /\ memo.ret = "False"

\* arg is a numeral of ten decimal digits
TenDigits(arg) ==
    /\ Len(Str(arg)) = BsnLen + 1
    /\ \A i \in 1..(BsnLen + 1) : IsDigitChar(Str(arg)[i])

\* C10: for an input of ten digits test_bsnnummer neither pads nor rejects:
\* it returns what it returns for the first nine digits, whatever the tenth.
C10_TenthDigitIgnored ==
    (Called /\ TenDigits(vInput)) =>
        /\ vString = Str(vInput)
        /\ vRet \in {"True", "False"}
        /\ vRet = test_bsnnummer(StrArg(SubSeq(Str(vInput), 1, BsnLen)))
        /\ (vRet = "True") <=>
             (WeightedSum([i \in 1..BsnLen |-> IntChar(Str(vInput)[i])], BsnLen) % 11 = 0)

\* a numeral of ten digits whose last nine digits fail and whose first nine pass
C10_Witness ==
    /\ pc = "checked"
    /\ TenDigits(vInput)
    /\ vRet = "True"
    /\ test_bsnnummer(StrArg(SubSeq(Str(vInput), 2, BsnLen + 1))) = "False"

====
